---------------------------- MODULE Spec2Model ----------------------------
(***************************************************************************)
(* Valer-Sync Pro: the scrape-and-persist pipeline.                        *)
(*                                                                         *)
(* Spec       the web application at work: POST /api/scrape and the worker *)
(*            threads that run run_scrape_job (app.py).                    *)
(* FairSpec   Spec with every started worker thread scheduled.             *)
(* SpecApi    Spec together with the GET endpoints get_scrape_status and   *)
(*            health (app.py).                                             *)
(* SpecCli    the command line main() (main.py), which drives              *)
(*            PortalScraper.run_full_extraction (scraper.py).              *)
(* SpecStore  the record store driven through its own interface:           *)
(*            get_db_session, upsert_patient_auth (database.py), the       *)
(*            persist loop (main.py persist_authorizations) and the manual *)
(*            edit endpoint update_authorization (app.py).                 *)
(*                                                                         *)
(* Timestamps are readings of a logical clock (now) that advances by one   *)
(* at every datetime.utcnow() call. NULL columns are 0 (timestamps, ids)   *)
(* or the string "NULL" (text).                                            *)
(***************************************************************************)
EXTENDS Integers, Sequences, FiniteSets, TLC

\* Number of POST /api/scrape requests served (each starts one worker thread).
MaxJobs == 2
\* Largest number of rows the portal table holds.
MaxRows == 2
\* Number of concurrent writer sessions (with get_db_session() blocks).
MaxWriters == 2
\* Largest number of upsert_patient_auth calls in one session.
MaxUpserts == 2
\* Number of GET requests served (/api/scrape/status/<job_id> and /health).
MaxRequests == 1
\* Number of PATCH /api/authorizations/<id> requests served.
MaxEdits == 1

JobIds == 1 .. MaxJobs
RunIds == 1 .. MaxJobs
Writers == 1 .. MaxWriters
PatientIds == 1 .. (MaxWriters * MaxUpserts)

NULL == "NULL"
NoRow == [status |-> "absent"]

\* str(e) of the exceptions the model distinguishes.
TypeErrorMsg == "run_full_extraction() got an unexpected keyword argument 'progress_callback'"
LoginFailedMsg == "Login failed, cannot proceed with extraction"
StoreErrorMsg == "store operation failed"
DriverErrorMsg == "WebDriverException"
ExtractErrorMsg == "TimeoutException"
QuitErrorMsg == "driver.quit() failed"
IntegrityErrorMsg == "IntegrityError: duplicate key value violates unique constraint"

VARIABLES
    now,            \* logical clock: the next value datetime.utcnow() returns
    job_status,     \* app.py job_status: job id -> entry, or NoRow
    job_pc,         \* position of each run_scrape_job worker thread
    scrape_run_id,  \* run_scrape_job's local scrape_run_id (0 = None)
    error_message,  \* run_scrape_job's local error_message (str(e))
    scrape_run,     \* committed rows of table scrape_run: id -> row, or NoRow
    scrape_run_seq, \* the table's id sequence: last id handed out
    ledger,         \* history: per job, the ledger transactions it committed
                    \* (created, closed) and its store operations that raised
    job_lock,       \* app.py job_lock: 0 when free, else its holder (a job id,
                    \* or StatusRequest)
    poll_pc,        \* position of the GET /api/scrape/status request being served
    poll_job,       \* its job_id (0 when none is served)
    job_data,       \* its local job_data: the entry it got, or NoRow for None
    poll_answer,    \* history: the last answer of the status endpoint
    requests,       \* history: number of GET requests answered
    last_sync_time, \* history: last_sync_time of the last /health answer
                    \* (0 for null, -1 before any answer)
    health_query,   \* history: how the query of the last /health request ended
    scenario,       \* what the portal and the browser do in this behaviour
    cli_pc,         \* position of main()
    driver,         \* PortalScraper.driver ("None" or the handle)
    ctx_driver,     \* the local driver of _driver_context
    quit_calls,     \* history: number of driver.quit() calls
    visited,        \* history: pages opened with driver.get
    login_result,   \* history: what login returned ("none" before it returns)
    raised,         \* the exception travelling out of run_full_extraction, or NULL
    authorizations, \* the list get_authorizations builds and returns
    page_rows,      \* get_authorizations: rows, the tr elements of #table1
    idx,            \* get_authorizations: position in the row loop (from 1)
    retry_count,    \* get_authorizations: retry_count of the current row
    attempts,       \* history: per row, the number of times its body was tried
    emitted,        \* history: the positions of the rows that were appended
    exit_code,      \* main()'s return value (-1 while it runs)
    patient_auth,     \* committed rows of table patient_auth: id -> row, or NoRow
    patient_auth_seq, \* the table's id sequence: last id handed out
    w_pc,           \* position of each writer (a with get_db_session() block)
    tx_ok,          \* FALSE once a statement of the writer's session has raised
    objs,           \* the session's identity map: id -> loaded object, or NoObj
    written,        \* rows the session has flushed and not yet committed
    new_rec,        \* the record between session.add and session.flush
    calls,          \* history: the upsert calls of the session and how they ended
    quiet,          \* history: no other transaction committed since the session began
    edit_pc,        \* position of the PATCH request being served
    edit_id,        \* its auth_id
    edit_obj,       \* the record it loaded
    edits,          \* history: number of PATCH requests answered
    edit_result,    \* history: the last PATCH answer (0 before any)
    edit_error      \* history: the error text of that answer (NULL without one)

api_vars == <<poll_pc, poll_job, job_data, poll_answer, requests, last_sync_time,
              health_query>>
job_vars == <<now, job_status, job_pc, scrape_run_id, error_message, scrape_run,
              scrape_run_seq, ledger, job_lock, api_vars>>
row_vars == <<page_rows, idx, retry_count, attempts, emitted>>
cli_vars == <<scenario, cli_pc, driver, ctx_driver, quit_calls, visited,
              login_result, raised, authorizations, exit_code, row_vars>>
store_vars == <<patient_auth, patient_auth_seq, w_pc, tx_ok, objs, written,
                new_rec, calls, quiet, edit_pc, edit_id, edit_obj,
                edits, edit_result, edit_error>>
vars == <<job_vars, cli_vars, store_vars>>
\* The worker's variables but the clock.
job_rest == <<job_status, job_pc, scrape_run_id, error_message, scrape_run,
              scrape_run_seq, ledger, job_lock, api_vars>>

\* get_authorizations, line 242.
max_retries == 3

\* Texts are sequences of characters.
Whitespace == {" "}

\* str.strip()
RECURSIVE StripLeft(_)
StripLeft(s) ==
    IF s # <<>> /\ Head(s) \in Whitespace THEN StripLeft(Tail(s)) ELSE s
RECURSIVE StripRight(_)
StripRight(s) ==
    IF s # <<>> /\ s[Len(s)] \in Whitespace
    THEN StripRight(SubSeq(s, 1, Len(s) - 1)) ELSE s
Strip(s) == StripRight(StripLeft(s))

\* str.replace(c, "")
Remove(s, c) == SelectSeq(s, LAMBDA x : x # c)

\* get_authorizations, line 282: f"{first_name_cell} {last_name_cell}".strip()
\* of the stripped texts of cells 1 and 0.
PatientName(first, last) == Strip(Strip(first) \o <<" ">> \o Strip(last))

\* An identifier that keeps its thousands separators.
AuthNumberKeepsComma(due) == Strip(Remove(Strip(due), "$"))

\* get_authorizations, line 283: the stripped text of cell 3 without "$" and
\* ",", stripped.
AuthNumber(due) == Strip(Remove(Remove(Strip(due), "$"), ","))

\* A row of the table: its number of td cells, the texts of cells 0, 1 and 3,
\* the number of attempts (from the first) during which the row's elements
\* are detached, and whether the row is missing when the rows are found again.
Row(cells, last, first, due, stale, gone) ==
    [cells |-> cells, last |-> last, first |-> first, due |-> due,
     stale |-> stale, gone |-> gone]

\* The rows a table is made of: well-formed ones (with padding, "$" and ","
\* in the texts, two of them with the same identifier), rows that lack cells
\* or texts, and rows that are detached for some or all attempts.
RowKinds ==
    {Row(4, <<"D", "o", "e">>, <<"J", "o">>, <<"$", "5", "0">>, k, FALSE) :
        k \in 0 .. max_retries}
    \cup {Row(4, <<"D", "o", "e">>, <<"J", "o">>, <<"$", "5", "0">>, max_retries, TRUE),
          Row(4, <<"R", "o", "e">>, <<" ", "A", "l", " ", " ">>,
              <<" ", "$", "1", ",", "2", "5">>, 0, FALSE),
          Row(4, <<"R", "o", "e", " ">>, <<"A", "l">>, <<"5", "0">>, 0, FALSE),
          Row(4, <<"D", "o", "e">>, <<" ", " ", "J", "a", "n", "e", " ", " ", " ">>,
              <<"$", "1", ",", "2", "3", "4", ".", "5", "0">>, 0, FALSE),
          Row(4, <<"D", "o", "e">>, <<>>, <<"7">>, 0, FALSE),
          Row(4, <<" ", " ">>, <<"J", "o">>, <<"$", "5", "0">>, 0, FALSE),
          Row(4, <<"D", "o", "e">>, <<"J", "o">>, <<"$", ",">>, 0, FALSE),
          Row(4, <<"D", "o", "e">>, <<"J", "o">>, <<" ">>, 0, FALSE),
          Row(2, <<"D", "o", "e">>, <<"J", "o">>, <<>>, 0, FALSE),
          Row(0, <<>>, <<>>, <<>>, 0, FALSE),
          Row(3, <<"D", "o", "e">>, <<"J", "o">>, <<>>, max_retries, FALSE)}

\* The tables of n rows.
PortalTables(n) == [1 .. n -> RowKinds]

-----------------------------------------------------------------------------
(* database.py: the run ledger *)

\* create_scrape_run: the row that is added and flushed.
NewScrapeRun(t) ==
    [started_at |-> t, completed_at |-> 0, duration_seconds |-> -1,
     records_found |-> 0, records_saved |-> 0, status |-> "running",
     error_message |-> NULL]

\* An update that sets the fields it is given and no completion time.
ClosedWithoutTimestamp(row, t, found, saved, status, msg) ==
    [row EXCEPT !.records_found = found, !.records_saved = saved,
                !.status = status, !.error_message = msg]

\* update_scrape_run: the fields set on the row that was found.
ClosedScrapeRun(row, t, found, saved, status, msg) ==
    [row EXCEPT !.completed_at = t, !.records_found = found,
                !.records_saved = saved, !.status = status,
                !.error_message = msg,
                !.duration_seconds = t - row.started_at]

-----------------------------------------------------------------------------
(* app.py: run_scrape_job *)

\* trigger_scrape, lines 192-206: a job id is drawn, the worker thread is
\* started and the id is returned; job_status is not touched.
Trigger(j) ==
    /\ job_pc[j] = "idle"
    /\ job_pc' = [job_pc EXCEPT ![j] = "lock_init"]
    /\ UNCHANGED <<now, job_status, scrape_run_id, error_message, scrape_run,
                   scrape_run_seq, ledger, job_lock, api_vars, cli_vars, store_vars>>

\* A lock that anybody can take at any time.
LockFreeAlways(lock) == TRUE

\* threading.Lock (line 42): it can be taken when nobody holds it.
LockFree(lock) == lock = 0

\* Lines 57 and 132, with job_lock: the worker waits for the lock and takes it.
JobAcquire(j) ==
    /\ job_pc[j] \in {"lock_init", "lock_failed"}
    /\ LockFree(job_lock)
    /\ job_lock' = j
    /\ job_pc' = [job_pc EXCEPT ![j] = IF @ = "lock_init" THEN "init" ELSE "set_failed"]
    /\ UNCHANGED <<now, job_status, scrape_run_id, error_message, scrape_run,
                   scrape_run_seq, ledger, api_vars, cli_vars, store_vars>>

\* Lines 57-62: the entry is created under job_lock. (The entries' ISO time
\* strings are kept as marks: "set" or NULL. A key an entry lacks is NULL or -1.)
JobInit(j) ==
    /\ job_pc[j] = "init"
    /\ job_lock = j
    /\ job_lock' = 0
    /\ job_status' = [job_status EXCEPT ![j] =
                         [status |-> "running", started_at |-> "set",
                          completed_at |-> NULL, records_found |-> -1,
                          records_saved |-> -1, error |-> NULL]]
    /\ job_pc' = [job_pc EXCEPT ![j] = "create"]
    /\ UNCHANGED <<now, scrape_run_id, error_message, scrape_run, scrape_run_seq,
                   ledger, api_vars, cli_vars, store_vars>>

\* Lines 64-67: create_scrape_run, scrape_run_id = scrape_run.id, commit.
\* The INSERT is flushed inside create_scrape_run; the flush or the commit may
\* raise, and get_db_session then rolls back and re-raises into line 116.
JobCreateRun(j) ==
    /\ job_pc[j] = "create"
    /\ \E outcome \in {"ok", "flush_raises", "commit_raises"} :
         LET id == scrape_run_seq + 1 IN
         CASE outcome = "ok" ->
                /\ scrape_run' = [scrape_run EXCEPT ![id] = NewScrapeRun(now)]
                /\ scrape_run_seq' = id
                /\ scrape_run_id' = [scrape_run_id EXCEPT ![j] = id]
                /\ ledger' = [ledger EXCEPT ![j].created = @ + 1]
                /\ job_pc' = [job_pc EXCEPT ![j] = "extract"]
                /\ UNCHANGED error_message
           [] outcome = "flush_raises" ->
                /\ error_message' = [error_message EXCEPT ![j] = StoreErrorMsg]
                /\ ledger' = [ledger EXCEPT ![j].faults = @ + 1]
                /\ job_pc' = [job_pc EXCEPT ![j] = "handler"]
                /\ UNCHANGED <<scrape_run, scrape_run_seq, scrape_run_id>>
           [] outcome = "commit_raises" ->
                /\ scrape_run_seq' = id
                /\ scrape_run_id' = [scrape_run_id EXCEPT ![j] = id]
                /\ error_message' = [error_message EXCEPT ![j] = StoreErrorMsg]
                /\ ledger' = [ledger EXCEPT ![j].faults = @ + 1]
                /\ job_pc' = [job_pc EXCEPT ![j] = "handler"]
                /\ UNCHANGED scrape_run
    /\ now' = IF job_pc'[j] = "extract" THEN now + 1 ELSE now
    /\ UNCHANGED <<job_status, job_lock, api_vars, cli_vars, store_vars>>

\* Lines 69-80: PortalScraper(headless) is built, then run_full_extraction is
\* called with the keyword progress_callback. PortalScraper.run_full_extraction
\* (scraper.py 325) takes (self, username, password) only, so the call raises
\* TypeError before its body runs: no driver is acquired, login is not
\* attempted. The exception is caught at line 116.
JobExtract(j) ==
    /\ job_pc[j] = "extract"
    /\ error_message' = [error_message EXCEPT ![j] = TypeErrorMsg]
    /\ job_pc' = [job_pc EXCEPT ![j] = "handler"]
    /\ UNCHANGED <<now, job_status, scrape_run_id, scrape_run, scrape_run_seq,
                   ledger, job_lock, api_vars, cli_vars, store_vars>>

\* A handler whose update leaves the row as it found it.
HandlerUpdateKeepsRow(table, id, t, msg) == table

\* A handler that closes the run as a success without a message.
HandlerUpdateAsSuccess(table, id, t, msg) ==
    [table EXCEPT ![id] = ClosedScrapeRun(table[id], t, 0, 0, "success", NULL)]

\* A handler that closes the newest run of the table instead of its own.
HandlerUpdateNewest(table, id, t, msg) ==
    LET newest == CHOOSE i \in RunIds :
                     table[i] # NoRow /\ \A k \in RunIds : table[k] # NoRow => k <= i
    IN [table EXCEPT ![newest] = ClosedScrapeRun(table[newest], t, 0, 0, "failed", msg)]

\* update_scrape_run as the handler calls it (lines 122-129): the row of the
\* job's own id becomes failed with both counts 0 and the captured message.
HandlerUpdate(table, id, t, msg) ==
    [table EXCEPT ![id] = ClosedScrapeRun(table[id], t, 0, 0, "failed", msg)]

\* Lines 116-130: the except block. With scrape_run_id set, update_scrape_run
\* looks the row up (ValueError when it is not there), sets the fields and
\* flushes; then the session is committed. Nothing guards this block: an
\* exception raised in it ends the thread. With scrape_run_id None the session
\* is committed without any statement, which touches no connection.
JobHandler(j) ==
    /\ job_pc[j] = "handler"
    /\ LET id == scrape_run_id[j] IN
         IF id = 0 THEN
            /\ job_pc' = [job_pc EXCEPT ![j] = "lock_failed"]
            /\ UNCHANGED <<now, scrape_run, ledger>>
         ELSE IF scrape_run[id] = NoRow THEN
            /\ job_pc' = [job_pc EXCEPT ![j] = "crashed"]
            /\ UNCHANGED <<now, scrape_run, ledger>>
         ELSE
            \E outcome \in {"ok", "raises"} :
               IF outcome = "ok" THEN
                  /\ scrape_run' = HandlerUpdate(scrape_run, id, now, error_message[j])
                  /\ ledger' = [ledger EXCEPT ![j].closed = @ + 1]
                  /\ now' = now + 1
                  /\ job_pc' = [job_pc EXCEPT ![j] = "lock_failed"]
               ELSE
                  /\ ledger' = [ledger EXCEPT ![j].faults = @ + 1]
                  /\ job_pc' = [job_pc EXCEPT ![j] = "crashed"]
                  /\ UNCHANGED <<now, scrape_run>>
    /\ UNCHANGED <<job_status, scrape_run_id, error_message, scrape_run_seq, job_lock, api_vars, cli_vars, store_vars>>

\* Lines 132-139: the entry is replaced by the failed entry under job_lock.
JobSetFailed(j) ==
    /\ job_pc[j] = "set_failed"
    /\ job_lock = j
    /\ job_lock' = 0
    /\ job_status' = [job_status EXCEPT ![j] =
                         [status |-> "failed", started_at |-> job_status[j].started_at,
                          completed_at |-> "set", records_found |-> -1,
                          records_saved |-> -1, error |-> error_message[j]]]
    /\ job_pc' = [job_pc EXCEPT ![j] = "done"]
    /\ UNCHANGED <<now, scrape_run_id, error_message, scrape_run, scrape_run_seq,
                   ledger, api_vars, cli_vars, store_vars>>

JobStep(j) ==
    \/ Trigger(j)
    \/ JobAcquire(j)
    \/ JobInit(j)
    \/ JobCreateRun(j)
    \/ JobExtract(j)
    \/ JobHandler(j)
    \/ JobSetFailed(j)

-----------------------------------------------------------------------------
(* app.py: get_scrape_status and health *)

\* The holder of job_lock that is the status request.
StatusRequest == -1

\* get_scrape_status, line 212: the request waits for job_lock and takes it.
\* The job_id it asks for is one that trigger_scrape has returned.
GetStatusAcquire(j) ==
    /\ poll_pc = "idle"
    /\ requests < MaxRequests
    /\ job_pc[j] # "idle"
    /\ LockFree(job_lock)
    /\ job_lock' = StatusRequest
    /\ poll_job' = j
    /\ poll_pc' = "locked"
    /\ UNCHANGED <<now, job_status, job_pc, scrape_run_id, error_message, scrape_run,
                   scrape_run_seq, ledger, job_data, poll_answer, requests,
                   last_sync_time, health_query, cli_vars, store_vars>>

\* Lines 212-213: job_status.get(job_id) under the lock, which is then released.
GetStatusGet ==
    /\ poll_pc = "locked"
    /\ job_data' = job_status[poll_job]
    /\ job_lock' = 0
    /\ poll_pc' = "answer"
    /\ UNCHANGED <<now, job_status, job_pc, scrape_run_id, error_message, scrape_run,
                   scrape_run_seq, ledger, poll_job, poll_answer, requests,
                   last_sync_time, health_query, cli_vars, store_vars>>

\* Lines 215-225: 404 when there is no entry, else the fields of the entry.
StatusAnswer(data) ==
    IF data = NoRow THEN [code |-> 404, status |-> NULL]
    ELSE [code |-> 200, status |-> data.status]

\* Lines 215-225, after the with block: the fields of job_data are read and
\* the answer is built.
GetStatusAnswer ==
    /\ poll_pc = "answer"
    /\ poll_answer' = StatusAnswer(job_data)
    /\ job_data' = NoRow
    /\ requests' = requests + 1
    /\ poll_pc' = "idle"
    /\ UNCHANGED <<now, job_status, job_pc, scrape_run_id, error_message, scrape_run,
                   scrape_run_seq, ledger, job_lock, poll_job, last_sync_time,
                   health_query, cli_vars, store_vars>>

\* get_latest_scrape_run, line 196: the row with the greatest started_at.
LatestScrapeRun(runs) ==
    IF \A i \in RunIds : runs[i] = NoRow THEN NoRow
    ELSE runs[CHOOSE i \in RunIds :
                 /\ runs[i] # NoRow
                 /\ \A k \in RunIds :
                       runs[k] # NoRow => runs[k].started_at <= runs[i].started_at]

\* health, lines 154-160: completed_at of the latest run when it has one,
\* else null.
LastSyncTime(runs) ==
    LET latest_run == LatestScrapeRun(runs)
    IN IF latest_run # NoRow /\ latest_run.completed_at # 0
       THEN latest_run.completed_at ELSE 0

\* health, lines 151-167: an exception of the query is logged and leaves
\* last_sync_time null.
Health ==
    /\ requests < MaxRequests
    /\ poll_pc = "idle"
    /\ \E outcome \in {"ok", "raises"} :
         /\ last_sync_time' = IF outcome = "ok" THEN LastSyncTime(scrape_run) ELSE 0
         /\ health_query' = outcome
    /\ requests' = requests + 1
    /\ UNCHANGED <<now, job_status, job_pc, scrape_run_id, error_message, scrape_run,
                   scrape_run_seq, ledger, job_lock, poll_pc, poll_job, job_data,
                   poll_answer, cli_vars, store_vars>>

ApiStep ==
    \/ \E j \in JobIds : GetStatusAcquire(j)
    \/ GetStatusGet
    \/ GetStatusAnswer
    \/ Health

-----------------------------------------------------------------------------
(* scraper.py: run_full_extraction, as main() calls it *)

\* _driver_context, lines 77-81: _create_driver returns the driver, which is
\* stored in the local and in self.driver, or raises WebDriverException; the
\* finally clause then finds the local None and quits nothing.
ScraperAcquire ==
    /\ cli_pc = "acquire"
    /\ IF scenario.pipeline = "driver_fails"
       THEN /\ raised' = DriverErrorMsg
            /\ cli_pc' = "returned"
            /\ UNCHANGED <<driver, ctx_driver>>
       ELSE /\ driver' = "chrome"
            /\ ctx_driver' = "chrome"
            /\ cli_pc' = "login"
            /\ UNCHANGED raised
    /\ UNCHANGED <<scenario, quit_calls, visited, login_result, authorizations,
                   exit_code, row_vars, job_vars, store_vars>>

\* login, lines 170-186: True only when the success indicator is found after
\* submission; False on the error indicator and on every exception (a timeout
\* at a wait step among them).
LoginReturns(indicator) == indicator = "success"

\* run_full_extraction, lines 339-340, around one return of login: a False
\* login raises RuntimeError and get_authorizations is not called.
LoginDone(ok) ==
    /\ login_result' = IF ok THEN "true" ELSE "false"
    /\ IF ok THEN /\ cli_pc' = "extract"
                  /\ UNCHANGED raised
             ELSE /\ cli_pc' = "release"
                  /\ raised' = LoginFailedMsg

\* An except chain that handles timeouts only.
LoginCatchesTimeoutOnly(exception) == exception = "TimeoutException"

\* login, lines 178-186: the except clauses for TimeoutException, for
\* StaleElementReferenceException and NoSuchElementException, and for
\* Exception; every exception of the try block is handled by one of them.
LoginCatches(exception) ==
    \/ exception = "TimeoutException"
    \/ exception \in {"StaleElementReferenceException", "NoSuchElementException"}
    \/ TRUE

\* login, lines 110-186, when a statement of the try block raises: a handled
\* exception is logged and False is returned; an exception that no clause
\* handles leaves login and run_full_extraction through _driver_context.
LoginExcept(exception) ==
    IF LoginCatches(exception)
    THEN LoginDone(FALSE)
    ELSE /\ login_result' = "raised"
         /\ raised' = exception
         /\ cli_pc' = "release"

\* login, lines 107-116: the login page is opened (driver.get raises
\* WebDriverException when the portal cannot be reached) and the wait for the
\* loaded document either passes or times out.
ScraperLoginOpen ==
    /\ cli_pc = "login"
    /\ visited' = visited \cup {"login"}
    /\ IF scenario.indicator \in {"get_error", "page_timeout"}
       THEN LoginExcept(IF scenario.indicator = "get_error"
                        THEN "WebDriverException" ELSE "TimeoutException")
       ELSE /\ cli_pc' = "login_form"
            /\ UNCHANGED <<login_result, raised>>
    /\ UNCHANGED <<scenario, driver, ctx_driver, quit_calls, authorizations,
                   exit_code, row_vars, job_vars, store_vars>>

\* WebDriverWait.until, as lines 142-149 call it: the predicate is polled until
\* it holds or the timeout elapses ("form_timeout"); the wait ignores
\* NoSuchElementException only, so StaleElementReferenceException raised by
\* the predicate (stale: the field is detached once while it is read, then
\* the page is as it should be) leaves the wait at once.
FormWaitsPass(indicator, stale) == indicator # "form_timeout" /\ ~stale

\* login, lines 119-149: the waits for the form, its two fields and the button,
\* and the filling of the fields; a timeout returns False (line 178), and so
\* does a stale element (line 181).
ScraperLoginForm ==
    /\ cli_pc = "login_form"
    /\ IF ~FormWaitsPass(scenario.indicator, scenario.form_stale)
       THEN LoginExcept(IF scenario.form_stale
                        THEN "StaleElementReferenceException"
                        ELSE "TimeoutException")
       ELSE /\ cli_pc' = "login_submit"
            /\ UNCHANGED <<login_result, raised>>
    /\ UNCHANGED <<scenario, driver, ctx_driver, quit_calls, visited, authorizations,
                   exit_code, row_vars, job_vars, store_vars>>

\* login, lines 152-176: the button is clicked and the flash message awaited;
\* the wait times out when neither indicator appears.
ScraperLoginSubmit ==
    /\ cli_pc = "login_submit"
    /\ IF scenario.indicator = "flash_timeout"
       THEN LoginExcept("TimeoutException")
       ELSE LoginDone(LoginReturns(scenario.indicator))
    /\ UNCHANGED <<scenario, driver, ctx_driver, quit_calls, visited, authorizations,
                   exit_code, row_vars, job_vars, store_vars>>

\* get_authorizations, lines 201-242: the tables page is opened and the table,
\* its body and its rows are awaited; a timeout at one of these waits is
\* re-raised (line 315). The waits of lines 226-233 pass only when the table
\* has a row, so the row loop starts with at least one.
ScraperExtract ==
    /\ cli_pc = "extract"
    /\ visited' = visited \cup {"tables"}
    /\ IF scenario.pipeline = "extract_raises"
       THEN /\ raised' = ExtractErrorMsg
            /\ cli_pc' = "release"
            /\ UNCHANGED page_rows
       ELSE /\ page_rows' \in PortalTables(scenario.rows)
            /\ cli_pc' = "rows"
            /\ UNCHANGED raised
    /\ UNCHANGED <<scenario, driver, ctx_driver, quit_calls, login_result,
                   authorizations, idx, retry_count, attempts, emitted,
                   exit_code, job_vars, store_vars>>

\* A pass that does not look at the name and identifier it has normalised.
RowOutcomeUnchecked(row) ==
    IF row.cells < 4 THEN "skip"
    ELSE IF Strip(row.last) = <<>> \/ Strip(row.due) = <<>> THEN "skip"
    ELSE "append"

\* Lines 255-295, one pass over a row whose elements are attached: "skip" when
\* the wait for the cells times out (no cell), when there are fewer than 4
\* cells, when the wait for the text of cell 0 times out (nothing but
\* whitespace), when cell 3 is empty, or when the name or the identifier is
\* empty after normalisation; else "append".
RowOutcome(row) ==
    IF row.cells < 4 THEN "skip"
    ELSE IF Strip(row.last) = <<>> \/ Strip(row.due) = <<>> THEN "skip"
    ELSE IF PatientName(row.first, row.last) # <<>> /\ AuthNumber(row.due) # <<>>
         THEN "append"
    ELSE "skip"

\* Lines 286-290: the record a row yields.
RowRecord(row) ==
    [patient_name |-> PatientName(row.first, row.last),
     auth_number |-> AuthNumber(row.due),
     status |-> "Pending"]

\* A list that keeps one record for each identifier.
AppendUnlessKnown(list, record) ==
    IF \E n \in 1 .. Len(list) : list[n].auth_number = record.auth_number
    THEN list ELSE Append(list, record)

\* Line 286, authorizations.append(...): the record goes to the end of the
\* list, whatever the list holds.
ListAppend(list, record) == Append(list, record)

\* A loop that tries once more.
RetryOnceMore(count) == count + 1 <= max_retries

\* Lines 297-304: after StaleElementReferenceException the counter is
\* incremented and the row is tried again while it is below max_retries.
RetryAfterStale(count) == count + 1 < max_retries

\* Lines 244-310: one pass of the while loop for row idx. On a retry the rows
\* are found again and a row that is no longer among them is left (lines
\* 249-253). A detached element raises StaleElementReferenceException out of
\* the wait or the read; a timeout or any other exception leaves the row.
\* After the last row the list is returned (line 313).
ScraperRow ==
    /\ cli_pc = "rows"
    /\ LET row == page_rows[idx]
           missing == retry_count > 0 /\ row.gone
           stale == ~missing /\ retry_count < row.stale
           again == stale /\ RetryAfterStale(retry_count)
           append == ~missing /\ ~stale /\ RowOutcome(row) = "append"
       IN /\ attempts' = IF missing THEN attempts
                         ELSE [attempts EXCEPT ![idx] = @ + 1]
          /\ authorizations' = IF append THEN ListAppend(authorizations, RowRecord(row))
                               ELSE authorizations
          /\ emitted' = IF append THEN Append(emitted, idx) ELSE emitted
          /\ IF again
             THEN /\ retry_count' = retry_count + 1
                  /\ UNCHANGED <<idx, cli_pc>>
             ELSE /\ retry_count' = 0
                  /\ idx' = idx + 1
                  /\ cli_pc' = IF idx = scenario.rows THEN "release" ELSE "rows"
    /\ UNCHANGED <<scenario, driver, ctx_driver, quit_calls, visited, login_result,
                   raised, page_rows, exit_code, job_vars, store_vars>>

\* self.driver after the finally clause of _driver_context (line 89).
DriverAfterRelease == "None"

\* A release that lets the exception of driver.quit() out.
AfterQuitPropagates(exc, quit_ok) == IF quit_ok THEN exc ELSE QuitErrorMsg

\* Lines 84-87: the exception leaving the with block after driver.quit() was
\* tried; what quit raises is caught and logged, so it is the one that entered.
AfterQuit(exc, quit_ok) == exc

\* _driver_context, lines 82-89: on every way out of the with block the driver
\* is quit; an exception of quit is logged and dropped; self.driver is reset.
ScraperRelease ==
    /\ cli_pc = "release"
    /\ ctx_driver # "None"
    /\ quit_calls' = quit_calls + 1
    /\ driver' = DriverAfterRelease
    /\ raised' = AfterQuit(raised, scenario.quit_ok)
    /\ cli_pc' = "returned"
    /\ UNCHANGED <<scenario, ctx_driver, visited, login_result,
                   authorizations, exit_code, row_vars, job_vars, store_vars>>

-----------------------------------------------------------------------------
(* main.py: main *)

\* Lines 82-95: wait_for_database gives up (return 1), init_db raises
\* RuntimeError (caught at line 131, return 1), or the scraper is built.
CliStart ==
    /\ cli_pc = "idle"
    /\ \E outcome \in {"ok", "db_unavailable", "init_raises"} :
         IF outcome = "ok"
         THEN /\ cli_pc' = "acquire"
              /\ UNCHANGED exit_code
         ELSE /\ cli_pc' = "exited"
              /\ exit_code' = 1
    /\ UNCHANGED <<scenario, driver, ctx_driver, quit_calls, visited, login_result,
                   raised, authorizations, row_vars, job_vars, store_vars>>

\* Lines 98-133, after run_full_extraction: an exception is caught at line 131
\* (return 1); an empty result returns 0 at line 105; otherwise line 111 calls
\* next() on what get_db_session() returned, a context manager object and no
\* iterator, which raises TypeError before any session exists: return 1.
MainExitCode(exc, auths) ==
    IF exc # NULL THEN 1
    ELSE IF Len(auths) = 0 THEN 0
    ELSE 1

CliFinish ==
    /\ cli_pc = "returned"
    /\ exit_code' = MainExitCode(raised, authorizations)
    /\ cli_pc' = "exited"
    /\ UNCHANGED <<scenario, driver, ctx_driver, quit_calls, visited, login_result,
                   raised, authorizations, row_vars, job_vars, store_vars>>

CliStep ==
    \/ CliStart
    \/ ScraperAcquire
    \/ ScraperLoginOpen
    \/ ScraperLoginForm
    \/ ScraperLoginSubmit
    \/ ScraperExtract
    \/ ScraperRow
    \/ ScraperRelease
    \/ CliFinish

-----------------------------------------------------------------------------
(* models.py, database.py: table patient_auth behind a session              *)
(*                                                                         *)
(* The sessions are SQLAlchemy sessions with autoflush off (database.py    *)
(* 46) on a store that shows a statement the committed rows and the        *)
(* session's own flushed rows, and that makes a writer of a row or of a    *)
(* unique key wait for the uncommitted writer that holds it.               *)

Names == {"Ann Lee", "Bob Ray"}
AuthNumbers == {"50.00", "51.00"}
\* The status argument of upsert_patient_auth; NULL is None.
StatusArgs == {NULL, "Pending"}
\* The JSON bodies of a PATCH request; NULL marks a key that is not sent.
Patches == [patient_name : {NULL, "Bob Ray"}, auth_number : {NULL} \cup AuthNumbers,
            status : {NULL, "Denied"}]

NoObj == [loaded |-> FALSE]
NoRec == [auth_number |-> NULL]

\* PatientAuth(patient_name, auth_number, status) as INSERTed: the column
\* defaults of models.py 25-35 fill the rest.
NewPatientAuth(n, k, s, t) ==
    [patient_name |-> n, auth_number |-> k, status |-> s,
     is_manually_edited |-> FALSE, created_at |-> t, updated_at |-> t]

\* What a statement of writer w sees.
Visible(w) ==
    [i \in PatientIds |-> IF written[w][i] # NoRow THEN written[w][i]
                          ELSE patient_auth[i]]

\* filter_by(auth_number=k) on a table.
FindByAuth(table, k) ==
    {i \in PatientIds : table[i] # NoRow /\ table[i].auth_number = k}

\* .first()
First(S) == CHOOSE i \in S : \A j \in S : i <= j

\* A table without the unique index.
UniqueViolationNever(table, id, k) == FALSE

\* models.py 23, unique=True: writing key k into row id breaks the index when
\* another committed row holds k.
UniqueViolation(table, id, k) ==
    \E i \in FindByAuth(table, k) : i # id

\* Rows another open session has flushed and not committed.
LockedByOther(w, i) == \E o \in Writers \ {w} : written[o][i] # NoRow
KeyHeldByOther(w, k) ==
    \E o \in Writers \ {w} : \E i \in PatientIds :
        /\ written[o][i] # NoRow
        /\ patient_auth[i] = NoRow
        /\ written[o][i].auth_number = k

\* The objects of the session whose attributes differ from what was loaded or
\* last flushed: the flush emits one UPDATE for each.
Dirty(w) ==
    {i \in PatientIds : objs[w][i] # NoObj /\
        (objs[w][i].patient_name # objs[w][i].base_name \/
         objs[w][i].status # objs[w][i].base_status)}

\* An UPDATE that also clears the manual-edit flag.
ApplyUpdateResetsFlag(row, obj, t) ==
    [row EXCEPT !.patient_name = obj.patient_name, !.status = obj.status,
                !.is_manually_edited = FALSE, !.updated_at = t]

\* The UPDATE of a dirty object: the changed columns are SET on the row as it
\* stands, and updated_at takes its onupdate value (models.py 29-35).
ApplyUpdate(row, obj, t) ==
    [row EXCEPT !.patient_name = IF obj.patient_name # obj.base_name
                                 THEN obj.patient_name ELSE @,
                !.status = IF obj.status # obj.base_status THEN obj.status ELSE @,
                !.updated_at = t]

\* The session's flushed rows after the UPDATEs of a flush.
FlushUpdates(w, t) ==
    [i \in PatientIds |-> IF i \in Dirty(w)
                          THEN ApplyUpdate(Visible(w)[i], objs[w][i], t)
                          ELSE written[w][i]]

\* The identity map after a flush: what was flushed is the new baseline.
FlushedObjs(w) ==
    [i \in PatientIds |-> IF objs[w][i] = NoObj THEN NoObj
                          ELSE [objs[w][i] EXCEPT !.base_name = objs[w][i].patient_name,
                                                  !.base_status = objs[w][i].status]]

FlushBlocked(w) == \E i \in Dirty(w) : LockedByOther(w, i)

NoRows == [i \in PatientIds |-> NoRow]
NoObjs == [i \in PatientIds |-> NoObj]

\* upsert_patient_auth, lines 91-92.
EffectiveStatus(s) == IF s = NULL THEN "Pending" ELSE s

\* An upsert that leaves the name of the record it found.
UpsertExistingKeepsName(obj, row, n, s) ==
    IF obj = NoObj
    THEN [loaded |-> TRUE, base_name |-> row.patient_name, base_status |-> row.status,
          patient_name |-> row.patient_name, status |-> s]
    ELSE [obj EXCEPT !.status = s]

\* upsert_patient_auth, lines 96-99: the record found is changed in memory.
UpsertExisting(obj, row, n, s) ==
    IF obj = NoObj
    THEN [loaded |-> TRUE, base_name |-> row.patient_name, base_status |-> row.status,
          patient_name |-> n, status |-> s]
    ELSE [obj EXCEPT !.patient_name = n, !.status = s]

LogCall(w, n, k, s, ok) ==
    [calls EXCEPT ![w] = Append(@, [patient_name |-> n, auth_number |-> k,
                                    status |-> s, ok |-> ok])]

\* get_db_session, line 60: the session is made; nothing is sent to the store.
WriterBegin(w) ==
    /\ w_pc[w] = "idle"
    /\ w_pc' = [w_pc EXCEPT ![w] = "open"]
    /\ quiet' = [quiet EXCEPT ![w] = TRUE]
    /\ UNCHANGED <<now, patient_auth, patient_auth_seq, tx_ok, objs, written,
                   new_rec, calls, edit_pc, edit_id, edit_obj, edits,
                   edit_result, edit_error, job_rest, cli_vars>>

\* A statement of the session raised: the transaction is rolled back and the
\* session refuses every statement until session.rollback() (line 65).
Poisoned(w) ==
    /\ tx_ok' = [tx_ok EXCEPT ![w] = FALSE]
    /\ written' = [written EXCEPT ![w] = NoRows]
    /\ objs' = [objs EXCEPT ![w] = NoObjs]

\* upsert_patient_auth, lines 91-99, called from the persist loop (main.py
\* 59-70, app.py 84-94), which catches what it raises and goes on: the
\* lookup, and for a record that exists the change of name and status.
UpsertQuery(w, n, k, sa) ==
    /\ w_pc[w] = "open"
    /\ Len(calls[w]) < MaxUpserts
    /\ LET s == EffectiveStatus(sa) IN
       IF ~tx_ok[w] THEN
          /\ calls' = LogCall(w, n, k, s, FALSE)
          /\ UNCHANGED <<w_pc, tx_ok, objs, written, new_rec>>
       ELSE
          \E outcome \in {"ok", "raises"} :
             IF outcome = "raises" THEN
                /\ Poisoned(w)
                /\ calls' = LogCall(w, n, k, s, FALSE)
                /\ UNCHANGED <<w_pc, new_rec>>
             ELSE LET found == FindByAuth(Visible(w), k) IN
                IF found # {} THEN
                   LET i == First(found) IN
                   /\ objs' = [objs EXCEPT ![w][i] =
                                  UpsertExisting(@, Visible(w)[i], n, s)]
                   /\ calls' = LogCall(w, n, k, s, TRUE)
                   /\ UNCHANGED <<w_pc, tx_ok, written, new_rec>>
                ELSE
                   /\ new_rec' = [new_rec EXCEPT ![w] =
                                     [patient_name |-> n, auth_number |-> k, status |-> s]]
                   /\ w_pc' = [w_pc EXCEPT ![w] = "flush"]
                   /\ UNCHANGED <<tx_ok, objs, written, calls>>
    /\ UNCHANGED <<now, patient_auth, patient_auth_seq, quiet, edit_pc, edit_id,
                   edit_obj, edits, edit_result, edit_error, job_rest, cli_vars>>

\* upsert_patient_auth, lines 101-108: session.add and session.flush. The
\* flush sends the UPDATEs of the changed records and the INSERT; the INSERT
\* raises IntegrityError when a committed row holds the key.
UpsertFlush(w) ==
    /\ w_pc[w] = "flush"
    /\ LET r == new_rec[w]
           id == patient_auth_seq + 1
       IN \E outcome \in {"ok", "raises"} :
            IF outcome = "ok" /\ ~UniqueViolation(patient_auth, id, r.auth_number) THEN
               /\ ~FlushBlocked(w)
               /\ ~KeyHeldByOther(w, r.auth_number)
               /\ written' = [written EXCEPT ![w] =
                                 [FlushUpdates(w, now) EXCEPT ![id] =
                                     NewPatientAuth(r.patient_name, r.auth_number,
                                                    r.status, now)]]
               /\ objs' = [objs EXCEPT ![w] =
                              [FlushedObjs(w) EXCEPT ![id] =
                                  [loaded |-> TRUE, base_name |-> r.patient_name,
                                   base_status |-> r.status,
                                   patient_name |-> r.patient_name, status |-> r.status]]]
               /\ patient_auth_seq' = id
               /\ calls' = LogCall(w, r.patient_name, r.auth_number, r.status, TRUE)
               /\ UNCHANGED tx_ok
            ELSE
               /\ Poisoned(w)
               /\ patient_auth_seq' =
                     IF outcome = "ok" THEN id ELSE patient_auth_seq
               /\ calls' = LogCall(w, r.patient_name, r.auth_number, r.status, FALSE)
    /\ new_rec' = [new_rec EXCEPT ![w] = NoRec]
    /\ w_pc' = [w_pc EXCEPT ![w] = "open"]
    /\ now' = now + 1
    /\ UNCHANGED <<patient_auth, quiet, edit_pc, edit_id, edit_obj,
                   edits, edit_result, edit_error, job_rest, cli_vars>>

\* The committed table after the session's flushed rows are committed.
Committed(w, rows) ==
    [i \in PatientIds |-> IF rows[i] # NoRow THEN rows[i] ELSE patient_auth[i]]

\* Every other open session has seen a commit since it began.
Disturb(w) == [o \in Writers |-> IF o = w THEN quiet[o] ELSE FALSE]

\* get_db_session, lines 63-68, when the with block is left: commit (which
\* flushes what is still changed), and on an exception rollback and re-raise.
WriterCommit(w) ==
    /\ w_pc[w] = "open"
    /\ Len(calls[w]) > 0
    /\ \E outcome \in {"ok", "raises"} :
         IF outcome = "ok" /\ tx_ok[w] THEN
            /\ ~FlushBlocked(w)
            /\ patient_auth' = Committed(w, FlushUpdates(w, now))
            /\ quiet' = IF FlushUpdates(w, now) = NoRows THEN quiet ELSE Disturb(w)
            /\ w_pc' = [w_pc EXCEPT ![w] = "committed"]
         ELSE
            /\ w_pc' = [w_pc EXCEPT ![w] = "rolled_back"]
            /\ UNCHANGED <<patient_auth, quiet>>
    /\ written' = [written EXCEPT ![w] = NoRows]
    /\ objs' = [objs EXCEPT ![w] = NoObjs]
    /\ now' = IF Dirty(w) # {} /\ w_pc'[w] = "committed" THEN now + 1 ELSE now
    /\ UNCHANGED <<patient_auth_seq, tx_ok, new_rec, calls, edit_pc, edit_id,
                   edit_obj, edits, edit_result, edit_error, job_rest, cli_vars>>

WriterStep(w) ==
    \/ WriterBegin(w)
    \/ \E n \in Names, k \in AuthNumbers, sa \in StatusArgs : UpsertQuery(w, n, k, sa)
    \/ UpsertFlush(w)
    \/ WriterCommit(w)

-----------------------------------------------------------------------------
(* app.py: update_authorization *)

Answer(code, error) ==
    /\ edit_result' = code
    /\ edit_error' = error
    /\ edits' = edits + 1
    /\ edit_pc' = "idle"
    /\ edit_id' = 0
    /\ edit_obj' = NoRow

EmptyPatch == [patient_name |-> NULL, auth_number |-> NULL, status |-> NULL]

\* Lines 232-239: an empty body is answered 400; the record is looked up by
\* id and a missing one is answered 404; a lookup that raises is answered 500
\* (line 259).
EditLoad(id, empty) ==
    /\ edit_pc = "idle"
    /\ edits < MaxEdits
    /\ IF empty
       THEN Answer(400, "No data provided")
       ELSE \E outcome \in {"ok", "raises"} :
              IF outcome = "raises" THEN Answer(500, StoreErrorMsg)
              ELSE IF patient_auth[id] = NoRow THEN Answer(404, "Record not found")
              ELSE /\ edit_obj' = patient_auth[id]
                   /\ edit_id' = id
                   /\ edit_pc' = "loaded"
                   /\ UNCHANGED <<edits, edit_result, edit_error>>
    /\ UNCHANGED <<now, patient_auth, patient_auth_seq, w_pc, tx_ok, objs, written,
                   new_rec, calls, quiet, job_rest, cli_vars>>

\* Lines 241-249: the record after the assignments.
Patched(obj, patch, t) ==
    [obj EXCEPT !.patient_name = IF patch.patient_name # NULL THEN patch.patient_name ELSE @,
                !.auth_number = IF patch.auth_number # NULL THEN patch.auth_number ELSE @,
                !.status = IF patch.status # NULL THEN patch.status ELSE @,
                !.is_manually_edited = TRUE,
                !.updated_at = t]

\* The UPDATE the commit of line 251 flushes: the attributes that differ from
\* what was loaded are SET on the row as it stands.
EditUpdate(row, obj, new) ==
    [row EXCEPT !.patient_name = IF new.patient_name # obj.patient_name
                                 THEN new.patient_name ELSE @,
                !.auth_number = IF new.auth_number # obj.auth_number
                                THEN new.auth_number ELSE @,
                !.status = IF new.status # obj.status THEN new.status ELSE @,
                !.is_manually_edited = IF new.is_manually_edited # obj.is_manually_edited
                                       THEN new.is_manually_edited ELSE @,
                !.updated_at = new.updated_at]

\* Lines 241-259: the assignments and session.commit(). The UPDATE waits for
\* an open session that holds the row or the new key; a key another row holds
\* raises IntegrityError, which get_db_session rolls back and line 257
\* answers 500.
EditCommit(patch) ==
    /\ edit_pc = "loaded"
    /\ patch # EmptyPatch
    /\ LET new == Patched(edit_obj, patch, now)
           row == EditUpdate(patient_auth[edit_id], edit_obj, new)
           rekey == new.auth_number # edit_obj.auth_number
       IN \E outcome \in {"ok", "raises"} :
            IF outcome = "ok" THEN
               /\ ~LockedByOther(0, edit_id)
               /\ rekey => ~KeyHeldByOther(0, new.auth_number)
               /\ IF rekey /\ UniqueViolation(patient_auth, edit_id, new.auth_number)
                  THEN UNCHANGED <<now, patient_auth, quiet>>
                       /\ Answer(500, IntegrityErrorMsg)
                  ELSE /\ patient_auth' = [patient_auth EXCEPT ![edit_id] = row]
                       /\ quiet' = [o \in Writers |-> FALSE]
                       /\ now' = now + 1
                       /\ Answer(200, NULL)
            ELSE
               UNCHANGED <<now, patient_auth, quiet>> /\ Answer(500, StoreErrorMsg)
    /\ UNCHANGED <<patient_auth_seq, w_pc, tx_ok, objs, written, new_rec, calls,
                   job_rest, cli_vars>>

EditStep ==
    \/ \E id \in PatientIds, empty \in BOOLEAN : EditLoad(id, empty)
    \/ \E patch \in Patches : EditCommit(patch)

-----------------------------------------------------------------------------

\* What the portal and the browser do during the behaviour: which step of the
\* pipeline fails, if any, and how many rows the table holds. (A table without
\* rows is one of the ways the page-level waits of get_authorizations time
\* out: pipeline "extract_raises".) With form_stale a field of the login form
\* is detached once while a wait reads it, on a portal that accepts the
\* credentials.
Scenarios ==
    {[pipeline |-> "driver_fails", indicator |-> "success", form_stale |-> FALSE,
      rows |-> 0, quit_ok |-> TRUE]}
    \cup [pipeline : {"login"},
          indicator : {"error", "get_error", "page_timeout", "form_timeout",
                       "flash_timeout"},
          form_stale : {FALSE},
          rows : {0},
          quit_ok : BOOLEAN]
    \cup [pipeline : {"login"}, indicator : {"success"}, form_stale : {TRUE},
          rows : {0}, quit_ok : BOOLEAN]
    \cup [pipeline : {"extract_raises"}, indicator : {"success"},
          form_stale : {FALSE}, rows : {0}, quit_ok : BOOLEAN]
    \cup [pipeline : {"ok"}, indicator : {"success"}, form_stale : {FALSE},
          rows : 1 .. MaxRows, quit_ok : BOOLEAN]

Init ==
    /\ now = 1
    /\ job_status = [j \in JobIds |-> NoRow]
    /\ job_pc = [j \in JobIds |-> "idle"]
    /\ scrape_run_id = [j \in JobIds |-> 0]
    /\ error_message = [j \in JobIds |-> NULL]
    /\ scrape_run = [i \in RunIds |-> NoRow]
    /\ scrape_run_seq = 0
    /\ ledger = [j \in JobIds |-> [created |-> 0, closed |-> 0, faults |-> 0]]
    /\ job_lock = 0
    /\ poll_pc = "idle"
    /\ poll_job = 0
    /\ job_data = NoRow
    /\ poll_answer = [code |-> 0, status |-> NULL]
    /\ requests = 0
    /\ last_sync_time = -1
    /\ health_query = "none"
    /\ scenario \in Scenarios
    /\ cli_pc = "idle"
    /\ driver = "None"
    /\ ctx_driver = "None"
    /\ quit_calls = 0
    /\ visited = {}
    /\ login_result = "none"
    /\ raised = NULL
    /\ authorizations = <<>>
    /\ page_rows = <<>>
    /\ idx = 1
    /\ retry_count = 0
    /\ attempts = [i \in 1 .. MaxRows |-> 0]
    /\ emitted = <<>>
    /\ exit_code = -1
    /\ patient_auth = NoRows
    /\ patient_auth_seq = 0
    /\ w_pc = [w \in Writers |-> "idle"]
    /\ tx_ok = [w \in Writers |-> TRUE]
    /\ objs = [w \in Writers |-> NoObjs]
    /\ written = [w \in Writers |-> NoRows]
    /\ new_rec = [w \in Writers |-> NoRec]
    /\ calls = [w \in Writers |-> <<>>]
    /\ quiet = [w \in Writers |-> TRUE]
    /\ edit_pc = "idle"
    /\ edit_id = 0
    /\ edit_obj = NoRow
    /\ edits = 0
    /\ edit_result = 0
    /\ edit_error = NULL

\* The web application: the workers of POST /api/scrape.
Next ==
    \E j \in JobIds : JobStep(j)

Spec == Init /\ [][Next]_vars

\* The web application with its GET endpoints.
ApiNext ==
    \/ \E j \in JobIds : JobStep(j)
    \/ ApiStep

SpecApi == Init /\ [][ApiNext]_vars

\* The web application with every started worker thread scheduled: a thread
\* that can take a step eventually takes one.
FairSpec == Spec /\ \A j \in JobIds : WF_vars(JobStep(j))

\* The command line: one run of main().
CliNext == CliStep

SpecCli == Init /\ [][CliNext]_vars

\* The store driven through its interface: writer sessions and PATCH requests.
StoreInit == Init /\ scenario.pipeline = "driver_fails"

StoreNext ==
    \/ \E w \in Writers : WriterStep(w)
    \/ EditStep

SpecStore == StoreInit /\ [][StoreNext]_vars

-----------------------------------------------------------------------------
(* Properties of the run ledger (Spec) *)

Ended(j) == job_pc[j] \in {"done", "crashed"}
Terminal(row) == row # NoRow /\ row.status \in {"success", "failed"}
StoredRuns == {i \in RunIds : scrape_run[i] # NoRow}
ClosedRuns == {i \in RunIds : Terminal(scrape_run[i])}
RECURSIVE SumOver(_, _)
SumOver(S, field) ==
    IF S = {} THEN 0
    ELSE LET j == CHOOSE x \in S : TRUE
         IN ledger[j][field] + SumOver(S \ {j}, field)

PipelineRaised(j) ==
    /\ Ended(j)
    /\ error_message[j] = TypeErrorMsg
    /\ ledger[j].faults = 0

C5_SuccessClosesSuccess ==
    \A j \in JobIds :
        (Ended(j) /\ ledger[j].faults = 0 /\ scenario.pipeline = "ok") =>
           LET r == scrape_run[scrape_run_id[j]]
           IN /\ r # NoRow
              /\ r.status = "success"
              /\ r.records_found = scenario.rows
              /\ r.records_saved = scenario.rows
              /\ r.completed_at # 0

\* C7: a step changes a RunRecord only by creating it as running or by moving
\* it from running to success or failed; a RunRecord that is success or failed
\* is never changed again, and no RunRecord is ever removed.
C7_TerminalAbsorbing ==
    [][\A i \in RunIds :
          /\ scrape_run[i] # NoRow => scrape_run'[i] # NoRow
          /\ Terminal(scrape_run[i]) => scrape_run'[i] = scrape_run[i]
          /\ scrape_run'[i] # scrape_run[i] =>
                \/ scrape_run[i] = NoRow /\ scrape_run'[i].status = "running"
                \/ /\ scrape_run[i] # NoRow
                   /\ scrape_run[i].status = "running"
                   /\ Terminal(scrape_run'[i])]_vars

\* Two runs were closed one after the other: the second closing update ran
\* while the first RunRecord was already terminal.
C7_Witness ==
    /\ Cardinality(ClosedRuns) = 2
    /\ \E i, k \in ClosedRuns : scrape_run[i].completed_at < scrape_run[k].completed_at
    /\ \A j \in JobIds : job_pc[j] = "done"

C13_EndToEndSuccess ==
    \A j \in JobIds :
        (Ended(j) /\ ledger[j].faults = 0 /\ scenario.pipeline = "ok") =>
           /\ job_pc[j] = "done"
           /\ job_status[j].status = "completed"
           /\ job_status[j].records_found = scenario.rows
           /\ job_status[j].records_saved = scenario.rows
           /\ scrape_run[scrape_run_id[j]].status = "success"
           /\ scrape_run[scrape_run_id[j]].records_found = scenario.rows
           /\ scrape_run[scrape_run_id[j]].records_saved = scenario.rows

-----------------------------------------------------------------------------
(* Properties of the record store (SpecStore) *)

\* The calls of session w on key k that returned.
OkCalls(w, k) ==
    {i \in 1 .. Len(calls[w]) : calls[w][i].ok /\ calls[w][i].auth_number = k}
Last(S) == CHOOSE i \in S : \A j \in S : j <= i
StoredAuths == {i \in PatientIds : patient_auth[i] # NoRow}

\* C2: when a session commits, and no other transaction has committed since
\* it began, then for every identifier the session upserted the table holds
\* exactly one row with that identifier, and the row's patient_name and status
\* are the arguments of the session's last upsert call with that identifier
\* (status None being the default "Pending"): a second call with the same
\* identifier, in the same session or in a later one, overwrites the first
\* and adds no row.
C2_UpsertIdempotent ==
    [][\A w \in Writers :
          (w_pc[w] = "open" /\ w_pc'[w] = "committed" /\ quiet[w]) =>
             \A k \in AuthNumbers :
                OkCalls(w, k) # {} =>
                   LET c == calls[w][Last(OkCalls(w, k))]
                       rows == FindByAuth(patient_auth', k)
                   IN /\ Cardinality(rows) = 1
                      /\ \A i \in rows :
                            /\ patient_auth'[i].patient_name = c.patient_name
                            /\ patient_auth'[i].status = c.status]_vars

\* One session upserted the same identifier twice with different names and
\* committed; a later session upserted it a third time with the other name and
\* committed: one row, carrying the last call's name.
C2_Witness ==
    \E w, o \in Writers : \E k \in AuthNumbers :
        /\ w # o
        /\ w_pc[w] = "committed" /\ w_pc[o] = "committed" /\ quiet[o]
        /\ Len(calls[w]) = 2 /\ OkCalls(w, k) = {1, 2}
        /\ calls[w][1].patient_name # calls[w][2].patient_name
        /\ OkCalls(o, k) = {1} /\ Len(calls[o]) = 1
        /\ calls[o][1].patient_name # calls[w][2].patient_name
        /\ \E i \in PatientIds :
              /\ FindByAuth(patient_auth, k) = {i}
              /\ patient_auth[i].patient_name = calls[o][1].patient_name
              /\ patient_auth[i].updated_at > patient_auth[i].created_at

\* C3: no two committed rows of patient_auth have the same auth_number.
C3_AuthNumberUnique ==
    \A i, j \in StoredAuths :
        patient_auth[i].auth_number = patient_auth[j].auth_number => i = j

\* Two rows are stored, one of them re-keyed by a manual edit, and a session
\* that tried to upsert an identifier a stored row holds was rolled back.
C3_Witness ==
    /\ Cardinality(StoredAuths) = 2
    /\ edit_result = 200
    /\ \E i \in StoredAuths : patient_auth[i].is_manually_edited
    /\ \E w \in Writers :
          /\ w_pc[w] = "rolled_back"
          /\ \E c \in 1 .. Len(calls[w]) :
                /\ ~calls[w][c].ok
                /\ FindByAuth(patient_auth, calls[w][c].auth_number) # {}
    /\ \E w \in Writers : w_pc[w] = "committed"

WriterEnded(w) == w_pc[w] \in {"committed", "rolled_back"}

\* C6: in a session that has ended, when the upsert of one record raised,
\* every later record of the session was still upserted and the session
\* committed, so that the later records are stored.
C6_LaterRecordsStillStored ==
    \A w \in Writers :
        \A i, j \in 1 .. Len(calls[w]) :
            (WriterEnded(w) /\ i < j /\ ~calls[w][i].ok) =>
               /\ calls[w][j].ok
               /\ w_pc[w] = "committed"
               /\ FindByAuth(patient_auth, calls[w][j].auth_number) # {}

\* A session commits.
CommitStep(w) == w_pc[w] = "open" /\ w_pc'[w] = "committed"
\* A manual edit is answered 200.
EditedStep == edit_pc = "loaded" /\ edits' = edits + 1 /\ edit_result' = 200

\* C8, as stated: the commit of a session of scrape-driven upserts changes
\* nothing but patient_name and status in a manually edited row.
C8_UpsertChangesNameAndStatusOnly ==
    [][\A w \in Writers : \A i \in PatientIds :
          (CommitStep(w) /\ patient_auth[i] # NoRow
             /\ patient_auth[i].is_manually_edited) =>
             [patient_auth'[i] EXCEPT !.patient_name = patient_auth[i].patient_name,
                                      !.status = patient_auth[i].status]
                = patient_auth[i]]_vars

\* C8, amended: a manual edit that is answered 200 leaves its row with
\* is_manually_edited true and a later updated_at; the commit of a session of
\* scrape-driven upserts changes nothing but patient_name, status and
\* updated_at in a stored row, so is_manually_edited stays as it was.
C8_ManualEditFlagKept ==
    [][/\ EditedStep =>
             /\ patient_auth'[edit_id].is_manually_edited
             /\ patient_auth'[edit_id].updated_at = now
             /\ patient_auth'[edit_id].updated_at > patient_auth[edit_id].updated_at
       /\ \A w \in Writers : \A i \in PatientIds :
             (CommitStep(w) /\ patient_auth[i] # NoRow) =>
                /\ patient_auth'[i] # NoRow
                /\ [patient_auth'[i] EXCEPT
                       !.patient_name = patient_auth[i].patient_name,
                       !.status = patient_auth[i].status,
                       !.updated_at = patient_auth[i].updated_at]
                      = patient_auth[i]
                /\ patient_auth'[i].updated_at >= patient_auth[i].updated_at]_vars

\* A row was edited by hand (name and status), and a session that began after
\* the edit upserted the row's identifier and committed: the row carries the
\* session's name and status, the session's timestamp, and the flag.
C8_Witness ==
    \E w \in Writers : \E i \in StoredAuths :
        /\ edit_result = 200
        /\ w_pc[w] = "committed" /\ quiet[w]
        /\ OkCalls(w, patient_auth[i].auth_number) # {}
        /\ patient_auth[i].is_manually_edited
        /\ patient_auth[i].patient_name = "Ann Lee"
        /\ patient_auth[i].status = "Pending"
        /\ patient_auth[i].updated_at = now - 1
        /\ patient_auth[i].updated_at > patient_auth[i].created_at + 1

-----------------------------------------------------------------------------
(* Properties of the browser session (SpecCli) *)

InWithBlock ==
    cli_pc \in {"login", "login_form", "login_submit", "extract", "rows", "release"}
LeftWithBlock == cli_pc \in {"returned", "exited"} /\ ctx_driver # "None"

\* C10: driver.quit() is called only for a driver that was acquired, never
\* inside the with block and never twice; once run_full_extraction has
\* returned or raised with a driver acquired, quit was called exactly once,
\* self.driver is None, and what travels out is what the body raised (nothing
\* after a normal return, the login failure, the extraction exception), never
\* the exception of quit.
C10_DriverReleasedOnce ==
    /\ quit_calls <= 1
    /\ ctx_driver = "None" => quit_calls = 0 /\ driver = "None"
    /\ InWithBlock => quit_calls = 0 /\ driver = ctx_driver /\ ctx_driver # "None"
    /\ LeftWithBlock =>
          /\ quit_calls = 1
          /\ driver = "None"
          /\ raised # QuitErrorMsg
          /\ raised = CASE scenario.pipeline = "login" -> LoginFailedMsg
                         [] scenario.pipeline = "extract_raises" -> ExtractErrorMsg
                         [] OTHER -> NULL

\* run_full_extraction has raised the login failure after a driver.quit()
\* that itself raised.
C10_Witness ==
    /\ cli_pc = "returned"
    /\ ~scenario.quit_ok
    /\ quit_calls = 1
    /\ login_result = "false"
    /\ raised = LoginFailedMsg
    /\ driver = "None"

-----------------------------------------------------------------------------
(* Properties of the row loop (SpecCli) *)

\* The row loop has left row i.
Passed(i) == page_rows # <<>> /\ i \in 1 .. scenario.rows /\ idx > i
LoopDone == page_rows # <<>> /\ idx > scenario.rows
Emitted == {emitted[n] : n \in 1 .. Len(emitted)}
\* Detached at every attempt, and still in the table when the rows are found again.
AlwaysStale(row) == row.stale >= max_retries /\ ~row.gone
\* Attached, with 4 cells, a last name, and an identifier left after normalisation.
WellFormed(row) ==
    /\ row.stale = 0
    /\ row.cells >= 4
    /\ Strip(row.last) # <<>>
    /\ AuthNumber(row.due) # <<>>

\* C11: no row is tried more than max_retries times; a row that raises the
\* stale condition at every attempt has been tried exactly max_retries times
\* (the first attempt and max_retries - 1 retries) when the loop leaves it,
\* and is not in the output; the loop goes on to the later rows, every one of
\* which is tried and, when well formed, appended; and get_authorizations
\* returns without raising.
C11_RetryBound ==
    /\ \A i \in 1 .. MaxRows : attempts[i] <= max_retries
    /\ \A i \in 1 .. MaxRows :
          (Passed(i) /\ AlwaysStale(page_rows[i])) =>
             /\ attempts[i] = max_retries
             /\ i \notin Emitted
             /\ raised = NULL
             /\ cli_pc = "rows" => idx <= scenario.rows
             /\ \A k \in (i + 1) .. scenario.rows :
                   Passed(k) => /\ attempts[k] >= 1
                                /\ WellFormed(page_rows[k]) => k \in Emitted
             /\ LoopDone => \A k \in (i + 1) .. scenario.rows : Passed(k)

\* get_authorizations has returned from a table whose first row was detached
\* at every attempt and whose second row is well formed: three attempts at
\* the first row, one record, from the second.
C11_Witness ==
    /\ cli_pc = "returned"
    /\ raised = NULL
    /\ scenario.rows = 2
    /\ AlwaysStale(page_rows[1])
    /\ WellFormed(page_rows[2])
    /\ attempts[1] = max_retries
    /\ attempts[2] = 1
    /\ emitted = <<2>>
    /\ Len(authorizations) = 1

\* The row must be skipped: fewer than 4 cells, or an empty name or an empty
\* identifier after normalisation.
MustSkip(row) ==
    \/ row.cells < 4
    \/ PatientName(row.first, row.last) = <<>>
    \/ AuthNumber(row.due) = <<>>

\* C12: a row with fewer than 4 cells, or whose normalised name or identifier
\* is empty, is never in the output, and no record of the output has an empty
\* name or identifier; after such a row every later row is tried, and every
\* later well-formed row is in the output.
C12_RowSkipLaw ==
    /\ \A i \in Emitted : ~MustSkip(page_rows[i])
    /\ \A n \in 1 .. Len(authorizations) :
          /\ authorizations[n].patient_name # <<>>
          /\ authorizations[n].auth_number # <<>>
          /\ authorizations[n] = RowRecord(page_rows[emitted[n]])
    /\ \A i \in 1 .. MaxRows :
          (Passed(i) /\ MustSkip(page_rows[i])) =>
             /\ raised = NULL
             /\ \A k \in (i + 1) .. scenario.rows :
                   Passed(k) => /\ attempts[k] >= 1
                                /\ WellFormed(page_rows[k]) => k \in Emitted
             /\ LoopDone => \A k \in (i + 1) .. scenario.rows : Passed(k)

\* get_authorizations has returned from a table whose first row has 2 cells
\* and whose second row is well formed: one record, from the second row.
C12_Witness ==
    /\ cli_pc = "returned"
    /\ raised = NULL
    /\ scenario.rows = 2
    /\ page_rows[1].cells = 2
    /\ WellFormed(page_rows[2])
    /\ emitted = <<2>>
    /\ authorizations = <<RowRecord(page_rows[2])>>


(***************************************************************************)
(* Properties of the status map and the GET endpoints (SpecApi) *)
(***************************************************************************)

\* The jobs whose job_id the trigger endpoint has returned.
Triggered == {j \in JobIds : job_pc[j] # "idle"}

\* C14: once the trigger endpoint has returned a job_id, the status map has an
\* entry for it, and a status poll for it never answers not-found.
C14_TriggeredJobIsKnown ==
    /\ \A j \in Triggered : job_status[j] # NoRow
    /\ poll_job \in Triggered => poll_answer.code # 404


(***************************************************************************)
(* Properties of concurrent runs and of a run's unit of work (Spec) *)
(***************************************************************************)

\* C15: when the portal shows the success indicator and a table with rows to
\* every run, two invocations of run_scrape_job that have both ended (their
\* ledger operations carried out) have each closed a RunRecord of their own
\* and a job-status entry of their own, and the store holds the identifier
\* that both extracted, in exactly one row.
C15_ConcurrentRunsIndependent ==
    (scenario.pipeline = "ok"
       /\ \A j \in JobIds : Ended(j) /\ ledger[j].faults = 0) =>
       /\ \A j \in JobIds :
             /\ Terminal(scrape_run[scrape_run_id[j]])
             /\ job_status[j] # NoRow
             /\ job_status[j].status \in {"completed", "failed"}
       /\ \A j, k \in JobIds : j # k => scrape_run_id[j] # scrape_run_id[k]
       /\ StoredAuths # {}
       /\ \A a, b \in StoredAuths :
             patient_auth[a].auth_number = patient_auth[b].auth_number => a = b


\* C16: when the portal shows the success indicator and a table with rows, an
\* invocation that has created its RunRecord and has ended either made its
\* upserts and the success update durable together, or, a store operation of
\* its unit of work having raised, made none of them durable and left the
\* RunRecord in the table, closed as failed.
C16_UnitOfWorkAtomic ==
    \A j \in JobIds :
        (Ended(j) /\ ledger[j].created = 1 /\ scenario.pipeline = "ok") =>
           LET row == scrape_run[scrape_run_id[j]]
           IN  \/ /\ row # NoRow
                  /\ row.status = "success"
                  /\ row.records_saved >= 1
                  /\ StoredAuths # {}
               \/ /\ ledger[j].faults > 0
                  /\ StoredAuths = {}
                  /\ row # NoRow
                  /\ row.status = "failed"


(***************************************************************************)
(* Termination of a run (FairSpec) *)
(***************************************************************************)

\* C17: every started invocation of run_scrape_job eventually has its job
\* status at completed or failed, whatever the portal does and whichever
\* store operation raises.
C17_EveryRunTerminates ==
    \A j \in JobIds :
        (job_pc[j] # "idle") ~>
            (job_status[j].status \in {"completed", "failed"})


(***************************************************************************)
(* Properties of the waits (SpecCli) *)
(***************************************************************************)

\* C18: a stale element met while a wait of the login form evaluates its
\* predicate does not end the login; on a portal that then shows the form as
\* it should be and accepts the credentials, login returns True.
C18_StaleNeverEndsLoginEarly ==
    (scenario.form_stale /\ scenario.indicator = "success"
       /\ login_result # "none") =>
          login_result = "true"


(***************************************************************************)
(* Properties of the health endpoint and of the lock (SpecApi) *)
(***************************************************************************)

\* The runs that have completed: their RunRecord has a completion timestamp.
CompletedRuns(runs) == {i \in RunIds : runs[i] # NoRow /\ runs[i].completed_at # 0}

\* The completion timestamps of the most recent completed run, by start or by
\* completion (nothing when no run has completed).
MostRecentCompleted(runs) ==
    {runs[i].completed_at : i \in
        {i \in CompletedRuns(runs) :
            \/ \A k \in CompletedRuns(runs) : runs[k].started_at <= runs[i].started_at
            \/ \A k \in CompletedRuns(runs) : runs[k].completed_at <= runs[i].completed_at}}

\* A /health request whose query was carried out is answered in this step.
HealthAnswered ==
    /\ poll_pc = "idle"
    /\ requests' = requests + 1
    /\ health_query' = "ok"

\* C19: a /health request whose query is carried out answers with the
\* completion timestamp of the most recent completed run (null only when no
\* run has completed), also while a later run is still running.
C19_HealthReportsLastCompleted ==
    [][HealthAnswered =>
          IF CompletedRuns(scrape_run) = {}
          THEN last_sync_time' = 0
          ELSE last_sync_time' \in MostRecentCompleted(scrape_run)]_vars


\* C20, as stated: the status endpoint holds job_lock during its lookup in
\* the map and while it reads the fields of the entry it got, and a worker
\* holds it while it writes its entry.
C20_EveryAccessUnderLock ==
    /\ poll_pc \in {"locked", "answer"} => job_lock = StatusRequest
    /\ \A j \in JobIds : job_pc[j] \in {"init", "set_failed"} => job_lock = j

\* C20, amended: job_lock has one holder at a time; a worker writes the map
\* only while it holds the lock, and only its own entry; the status endpoint
\* looks the entry up while it holds the lock and reads the fields of what it
\* got after it has released the lock, so that its answer is the entry as it
\* was at the lookup, whatever the workers have written since.
C20_MapAccessUnderLock ==
    [][/\ (poll_pc = "locked") <=> (job_lock = StatusRequest)
       /\ \A j \in JobIds :
             (job_pc[j] \in {"init", "set_failed"}) <=> (job_lock = j)
       /\ job_status' # job_status =>
             \E j \in JobIds :
                /\ job_lock = j
                /\ job_lock' = 0
                /\ \A k \in JobIds \ {j} : job_status'[k] = job_status[k]
       /\ (poll_pc = "locked" /\ poll_pc' = "answer") =>
             /\ job_data' = job_status[poll_job]
             /\ job_status' = job_status
             /\ job_lock' = 0
       /\ (poll_pc = "answer" /\ poll_pc' = "idle") =>
             poll_answer' = StatusAnswer(job_data)
      ]_vars

\* The status endpoint has looked up the entry of a job, found it at running
\* and released the lock; before it has read the fields, the worker of that
\* job has taken the lock to write the entry.
C20_Witness ==
    /\ poll_pc = "answer"
    /\ job_data # NoRow
    /\ job_data.status = "running"
    /\ job_lock = poll_job
    /\ job_pc[poll_job] = "set_failed"


(***************************************************************************)
(* Properties of the extraction output (SpecCli) *)
(***************************************************************************)

\* The row is not skipped: it is attached before the attempts are used up,
\* it is still in the table when the rows are found again, and it has its 4
\* cells, a last name (the wait of line 272 times out without one) and an
\* identifier left after normalisation.
Kept(row) ==
    /\ row.stale < max_retries
    /\ ~(row.gone /\ row.stale > 0)
    /\ row.cells >= 4
    /\ Strip(row.last) # <<>>
    /\ AuthNumber(row.due) # <<>>
KeptRows == {i \in 1 .. scenario.rows : Kept(page_rows[i])}

\* C21: the output of get_authorizations is in ascending row index, each
\* record being the record of its row; when the loop is done the output holds
\* exactly the rows that are not skipped, one record for each, so that two
\* rows with the same identifier are both in it.
C21_PageOrderNoDedup ==
    /\ Len(authorizations) = Len(emitted)
    /\ \A n \in 1 .. Len(emitted) :
          /\ authorizations[n] = RowRecord(page_rows[emitted[n]])
          /\ \A m \in 1 .. Len(emitted) : m < n => emitted[m] < emitted[n]
    /\ LoopDone =>
          /\ Emitted = KeptRows
          /\ Len(authorizations) = Cardinality(KeptRows)

\* get_authorizations has returned from a table of two rows with the same
\* identifier and different names: two records, in page order.
C21_Witness ==
    /\ cli_pc = "returned"
    /\ raised = NULL
    /\ scenario.rows = 2
    /\ emitted = <<1, 2>>
    /\ Len(authorizations) = 2
    /\ authorizations[1].auth_number = authorizations[2].auth_number
    /\ authorizations[1].patient_name # authorizations[2].patient_name


\* The text without the characters of a set, and whether a text has
\* whitespace at one of its ends.
Without(s, chars) == SelectSeq(s, LAMBDA x : x \notin chars)
Padded(s) == s # <<>> /\ (s[1] \in Whitespace \/ s[Len(s)] \in Whitespace)

\* C22: the identifier of a record is the text of cell 3 with every "$" and
\* "," removed and the surrounding whitespace trimmed ("$1,234.50" gives
\* "1234.50"); the name is the trimmed first name and the trimmed last name
\* joined by one space, trimmed ("  Jane   " and "Doe" give "Jane Doe").
C22_Normalization ==
    \A n \in 1 .. Len(authorizations) :
        LET row == page_rows[emitted[n]]
            rec == authorizations[n]
        IN  /\ rec.auth_number = Strip(Without(row.due, {"$", ","}))
            /\ ~Padded(rec.auth_number)
            /\ \A k \in 1 .. Len(rec.auth_number) :
                  rec.auth_number[k] \notin {"$", ","}
            /\ ~Padded(rec.patient_name)
            /\ rec.patient_name =
                  IF Strip(row.first) = <<>> THEN Strip(row.last)
                  ELSE Strip(row.first) \o <<" ">> \o Strip(row.last)
            /\ row.due = <<"$", "1", ",", "2", "3", "4", ".", "5", "0">> =>
                  rec.auth_number = <<"1", "2", "3", "4", ".", "5", "0">>
            /\ (row.first = <<" ", " ", "J", "a", "n", "e", " ", " ", " ">>
                  /\ row.last = <<"D", "o", "e">>) =>
                  rec.patient_name = <<"J", "a", "n", "e", " ", "D", "o", "e">>

\* get_authorizations has returned the record of the row "  Jane   ", "Doe",
\* "$1,234.50".
C22_Witness ==
    /\ cli_pc = "returned"
    /\ Len(authorizations) >= 1
    /\ page_rows[emitted[1]].due = <<"$", "1", ",", "2", "3", "4", ".", "5", "0">>
    /\ page_rows[emitted[1]].first = <<" ", " ", "J", "a", "n", "e", " ", " ", " ">>
    /\ authorizations[1].auth_number = <<"1", "2", "3", "4", ".", "5", "0">>
    /\ authorizations[1].patient_name = <<"J", "a", "n", "e", " ", "D", "o", "e">>


(***************************************************************************)
(* Properties of the manual edit (SpecStore) *)
(***************************************************************************)

PatchFields == {"patient_name", "auth_number", "status"}

\* C23: a PATCH request with a body, addressed to an id that no row has, is
\* answered 404 (500 when its lookup raised) and changes no row; one that is
\* answered 200 leaves its row with the value of the patch in every field
\* the patch holds and with the value it had in every other field of name,
\* identifier and status, and changes no other row.
C23_PatchAppliesPresentFields ==
    [][/\ \A id \in PatientIds :
             (EditLoad(id, FALSE) /\ patient_auth[id] = NoRow) =>
                /\ edit_result' \in {404, 500}
                /\ patient_auth' = patient_auth
       /\ \A patch \in Patches :
             (EditCommit(patch) /\ edit_result' = 200) =>
                /\ \A f \in PatchFields :
                      patient_auth'[edit_id][f] =
                         IF patch[f] # NULL THEN patch[f]
                         ELSE patient_auth[edit_id][f]
                /\ \A i \in PatientIds \ {edit_id} :
                      patient_auth'[i] = patient_auth[i]]_vars


(***************************************************************************)
(* Properties of login (SpecCli) *)
(***************************************************************************)

\* C24: login is entered with the driver initialised and never raises: it
\* has returned True or False whenever it has been left, False after a
\* timeout at any of its waits, after a stale element and after any other
\* exception, and True only when the success indicator is there after the
\* submission.
C24_LoginNeverRaises ==
    /\ cli_pc \in {"login", "login_form", "login_submit"} =>
          /\ driver = "chrome"
          /\ login_result = "none"
    /\ login_result \in {"none", "true", "false"}
    /\ login_result = "true" => scenario.indicator = "success"
    /\ (login_result # "none"
          /\ (scenario.form_stale
                \/ scenario.indicator \in {"get_error", "page_timeout",
                                           "form_timeout", "flash_timeout"})) =>
          /\ login_result = "false"
          /\ raised = LoginFailedMsg

\* login has returned False after driver.get raised WebDriverException, and
\* run_full_extraction has raised its own RuntimeError.
C24_Witness ==
    /\ scenario.indicator = "get_error"
    /\ login_result = "false"
    /\ raised = LoginFailedMsg
    /\ visited = {"login"}


(***************************************************************************)
(* Properties of a run's outcome (Spec) *)
(***************************************************************************)

\* C25: an invocation of run_scrape_job that has ended (its ledger operations
\* carried out) after a login that succeeded and an extraction that did not
\* raise, the extraction from a table whose rows are all skipped included,
\* has closed its RunRecord as success, with records_saved = records_found
\* and no error message, and has its job status at completed, with no error.
C25_EmptyExtractionIsSuccess ==
    \A j \in JobIds :
        (Ended(j) /\ ledger[j].faults = 0 /\ scenario.pipeline = "ok") =>
           LET row == scrape_run[scrape_run_id[j]]
           IN  /\ row.status = "success"
               /\ row.error_message = NULL
               /\ row.records_saved = row.records_found
               /\ job_status[j].status = "completed"
               /\ job_status[j].error = NULL


\* C26: once the job status of a run is completed or failed, the RunRecord
\* the run created agrees with it: completed goes with a RunRecord at success
\* with the same records_found and records_saved, failed with a RunRecord at
\* failed with the same error text, and the RunRecord is never still at
\* running.
C26_StatusAgreesWithRunRecord ==
    \A j \in JobIds :
        LET entry == job_status[j]
            id == scrape_run_id[j]
        IN  /\ entry.status = "completed" =>
                  /\ ledger[j].created = 1
                  /\ scrape_run[id].status = "success"
                  /\ scrape_run[id].records_found = entry.records_found
                  /\ scrape_run[id].records_saved = entry.records_saved
            /\ (entry.status = "failed" /\ ledger[j].created = 1) =>
                  /\ scrape_run[id] # NoRow
                  /\ scrape_run[id].status = "failed"
                  /\ scrape_run[id].error_message = entry.error
            /\ entry.status \in {"completed", "failed"} =>
                  \A i \in RunIds :
                     (i = id /\ scrape_run[i] # NoRow) =>
                        scrape_run[i].status # "running"

\* A job is reported failed and the RunRecord it created is closed as failed,
\* while the other job's RunRecord is still running.
C26_Witness ==
    \E j, k \in JobIds :
        /\ job_status[j].status = "failed"
        /\ ledger[j].created = 1
        /\ scrape_run[scrape_run_id[j]].status = "failed"
        /\ job_status[k].status = "running"
        /\ ledger[k].created = 1
        /\ scrape_run[scrape_run_id[k]].status = "running"


\* C27: every RunRecord of the table is well formed: its completed_at is
\* null exactly when its status is running, its records_saved is at most its
\* records_found, both counts are 0 while it is running, and it has an error
\* message only when it is failed.
C27_RunRecordWellFormed ==
    \A i \in StoredRuns :
        LET row == scrape_run[i]
        IN  /\ row.status \in {"running", "success", "failed"}
            /\ (row.completed_at = 0) <=> (row.status = "running")
            /\ row.records_saved <= row.records_found
            /\ row.status = "running" =>
                  row.records_found = 0 /\ row.records_saved = 0
            /\ row.error_message # NULL => row.status = "failed"
            /\ row.started_at > 0
            /\ row.completed_at # 0 => row.completed_at >= row.started_at

\* The table holds a RunRecord that is closed as failed, with its message and
\* its completion time, and one that is running, with neither.
C27_Witness ==
    \E i, k \in StoredRuns :
        /\ scrape_run[i].status = "failed"
        /\ scrape_run[i].error_message = TypeErrorMsg
        /\ scrape_run[i].completed_at > scrape_run[i].started_at
        /\ scrape_run[k].status = "running"
        /\ scrape_run[k].completed_at = 0
        /\ scrape_run[k].error_message = NULL


\* C28: when the portal shows the success indicator and a table of several
\* rows with the same identifier, an invocation of run_scrape_job that has
\* ended (its ledger operations carried out) has committed: its RunRecord is
\* at success with records_saved counting every row, and the store holds
\* exactly one row for the identifier.
C28_LastWriteWinsInPageOrder ==
    \A j \in JobIds :
        (Ended(j) /\ ledger[j].faults = 0
           /\ scenario.pipeline = "ok" /\ scenario.rows >= 2) =>
           /\ scrape_run[scrape_run_id[j]].status = "success"
           /\ scrape_run[scrape_run_id[j]].records_saved = scenario.rows
           /\ Cardinality(StoredAuths) = 1


(***************************************************************************)
(* Properties of the unique identifier under manual edits (SpecStore) *)
(***************************************************************************)

\* The rows other than row id that hold identifier k.
OtherHolders(table, id, k) == {i \in FindByAuth(table, k) : i # id}

\* C29: a PATCH request whose patch carries an identifier that a row other
\* than the edited one holds is answered with an error and changes no row:
\* the edited row keeps all its fields, is_manually_edited and updated_at
\* among them, and the other row is as it was. No manual edit ever leaves two
\* rows with one identifier.
C29_DuplicateIdentifierRejected ==
    [][/\ \A patch \in Patches :
             (EditCommit(patch) /\ patch.auth_number # NULL
                /\ OtherHolders(patient_auth, edit_id, patch.auth_number) # {}) =>
                /\ edit_result' = 500
                /\ edit_error' # NULL
                /\ patient_auth' = patient_auth
       /\ edits' = edits + 1 =>
             \A a, b \in PatientIds :
                (patient_auth'[a] # NoRow /\ patient_auth'[b] # NoRow
                   /\ patient_auth'[a].auth_number = patient_auth'[b].auth_number) =>
                   a = b]_vars

\* A manual edit that asked for the identifier of the other stored row was
\* answered 500 with the store's IntegrityError; both rows are as the
\* sessions that upserted them left them.
C29_Witness ==
    /\ edit_result = 500
    /\ edit_error = IntegrityErrorMsg
    /\ \E a, b \in StoredAuths :
          /\ a # b
          /\ patient_auth[a].auth_number # patient_auth[b].auth_number
          /\ ~patient_auth[a].is_manually_edited
          /\ ~patient_auth[b].is_manually_edited


(***************************************************************************)
(* Properties of the command line (SpecCli) *)
(***************************************************************************)

\* C30: when main() has exited after an extraction that returned records
\* without raising, the records are stored and the exit code is 0.
C30_MainPersistsAndExitsZero ==
    (cli_pc = "exited" /\ raised = NULL /\ Len(authorizations) >= 1) =>
       /\ exit_code = 0
       /\ \A n \in 1 .. Len(authorizations) :
             \E i \in StoredAuths :
                patient_auth[i].auth_number = authorizations[n].auth_number

=============================================================================
